---- MODULE Spec2Model ----
(***************************************************************************)
(* okcourse: the course generator OpenAIAsyncGenerator, the MP3 assembler  *)
(* combine_mp3_buffers and the sentence chunker split_text_into_chunks.    *)
(*                                                                         *)
(* Three specifications share this module:                                 *)
(*   SpecChunk    the two split_text_into_chunks functions applied to a    *)
(*                bounded sentence sequence;                               *)
(*   SpecCombine  combine_mp3_buffers applied to a bounded buffer list;    *)
(*   Spec         the generator's stages, with their concurrent tasks.     *)
(***************************************************************************)
EXTENDS Integers, Sequences, FiniteSets, TLC

(***************************************************************************)
(* Bounds of the model.                                                    *)
(***************************************************************************)
\* longest sentence sequence given to the chunker
MaxSentences == 3
\* longest sentence, in characters
MaxSentLen == 4
\* largest max_chunk_size tried
MaxChunk == 4

\* most buffers in a list given to combine_mp3_buffers
MaxBuffers == 3

\* most characters in a name given to sanitize_filename
MaxNameLen == 4

\* most pieces (words and separators) in a text given to swap_words
MaxPieces == 3

\* most topics in an outline returned by the text model, and the largest
\* topic number it uses
MaxTopics == 2
\* max_chunk_size of the call made by generate_audio (its default, 4096
\* characters in the code), on the scale of the model's sentences
AudioChunkSize == 4
\* length of the sentence that opens the course text (AI_DISCLOSURE and
\* the course title), on the same scale
DisclosureLen == 2

\* the character " " that str.join puts between sentences; every other
\* character of sentence number i is written i
Space == 0

(***************************************************************************)
(* Text chunker: utils/string_utils.py and the older utils.py.             *)
(***************************************************************************)

\* nltk.sent_tokenize(text): the tokenizer is an external collaborator; a
\* text is given by the lengths of its sentences, and sentence i is i
\* repeated lens[i] times
sent_tokenize(lens) == [i \in 1..Len(lens) |-> [j \in 1..lens[i] |-> i]]

RECURSIVE join_from(_, _)
join_from(strs, i) ==
    IF i > Len(strs) THEN <<>>
    ELSE IF i = Len(strs) THEN strs[i]
    ELSE strs[i] \o <<Space>> \o join_from(strs, i + 1)

\* " ".join(strs)
join(strs) == join_from(strs, 1)

\* the same test with the separator forgotten
fits_without_separator(current_length, sentence_length, max_chunk_size) ==
    current_length + sentence_length <= max_chunk_size

\* the test of a sentence against the room left in the current chunk
fits_in_chunk(current_length, sentence_length, max_chunk_size) ==
    current_length + sentence_length + 1 <= max_chunk_size

\* the current chunk saved without the guard against an empty one
save_chunk_unguarded(chunks, current_chunk) == Append(chunks, join(current_chunk))

\* string_utils.py: "if current_chunk: chunks.append(" ".join(current_chunk))"
save_chunk(chunks, current_chunk) ==
    IF current_chunk # <<>> THEN Append(chunks, join(current_chunk)) ELSE chunks

\* utils.py: "chunks.append(" ".join(current_chunk))", whatever current_chunk
utils_save_chunk(chunks, current_chunk) == Append(chunks, join(current_chunk))

RECURSIVE split_loop(_, _, _, _, _, _)
split_loop(sentences, max_chunk_size, i, chunks, current_chunk, current_length) ==
    IF i > Len(sentences)
    THEN [raised |-> FALSE, chunks |-> save_chunk(chunks, current_chunk)]
    ELSE LET sentence == sentences[i]
             sentence_length == Len(sentence)
         IN  IF sentence_length > max_chunk_size
             THEN [raised |-> TRUE, chunks |-> <<>>]
             ELSE IF fits_in_chunk(current_length, sentence_length, max_chunk_size)
             THEN split_loop(sentences, max_chunk_size, i + 1, chunks,
                             Append(current_chunk, sentence),
                             current_length + sentence_length + 1)
             ELSE split_loop(sentences, max_chunk_size, i + 1,
                             save_chunk(chunks, current_chunk),
                             <<sentence>>, sentence_length)

\* utils/string_utils.py split_text_into_chunks, on the tokenized text
split_text_into_chunks(sentences, max_chunk_size) ==
    IF max_chunk_size < 1
    THEN [raised |-> TRUE, chunks |-> <<>>]
    ELSE split_loop(sentences, max_chunk_size, 1, <<>>, <<>>, 0)

RECURSIVE utils_split_loop(_, _, _, _, _, _)
utils_split_loop(sentences, max_chunk_size, i, chunks, current_chunk, current_length) ==
    IF i > Len(sentences)
    THEN [raised |-> FALSE, chunks |-> save_chunk(chunks, current_chunk)]
    ELSE LET sentence == sentences[i]
             sentence_length == Len(sentence)
         IN  IF fits_in_chunk(current_length, sentence_length, max_chunk_size)
             THEN utils_split_loop(sentences, max_chunk_size, i + 1, chunks,
                                   Append(current_chunk, sentence),
                                   current_length + sentence_length + 1)
             ELSE utils_split_loop(sentences, max_chunk_size, i + 1,
                                   utils_save_chunk(chunks, current_chunk),
                                   <<sentence>>, sentence_length)

\* utils.py split_text_into_chunks, on the tokenized text
utils_split_text_into_chunks(sentences, max_chunk_size) ==
    IF max_chunk_size < 1
    THEN [raised |-> TRUE, chunks |-> <<>>]
    ELSE utils_split_loop(sentences, max_chunk_size, 1, <<>>, <<>>, 0)

(***************************************************************************)
(* Audio assembler: combine_mp3_buffers.                                   *)
(*                                                                         *)
(* The bytes of a buffer are a sequence of tokens <<kind, c>>, c being the *)
(* number of the chunk the bytes were made for: "ID3" a piece of an ID3v2  *)
(* tag, "frame" an MPEG audio frame (it starts with 0xff), "ff" bytes that *)
(* start with 0xff and are no MPEG frame, "junk" anything else.  What the  *)
(* mutagen library (MP3, ID3, EasyMP3) does with them is written down in   *)
(* the operators below as the library documents it.                        *)
(***************************************************************************)

\* tokens of the ID3v2 tag of a buffer that has one (mutagen: ID3.size)
ID3Size == 2

BufferKinds ==
    {"plain", "tagged", "emptytag", "badlead", "unparsable", "plain48k", "plain64k"}

\* an in-memory MP3 buffer: its bytes, its (bitrate, sample rate), which
\* "plain64k" and "plain48k" have different from the others, and whether
\* its ID3 tag holds frames
Buffer(c, kind) ==
    [data |-> CASE kind = "tagged"     -> <<<<"ID3", c>>, <<"ID3", c>>, <<"frame", c>>>>
               []  kind = "emptytag"   -> <<<<"ID3", c>>, <<"ID3", c>>, <<"frame", c>>>>
               []  kind = "badlead"    -> <<<<"junk", c>>, <<"frame", c>>>>
               []  kind = "unparsable" -> <<<<"ff", c>>>>
               []  OTHER               -> <<<<"frame", c>>>>,
     info |-> <<IF kind = "plain64k" THEN 2 ELSE 1, IF kind = "plain48k" THEN 2 ELSE 1>>,
     id3_frames |-> kind = "tagged"]

\* _is_valid_mp3(data)
is_valid_mp3(data) == data # <<>> /\ data[1][1] \in {"ID3", "frame", "ff"}

\* MP3(io.BytesIO(data)) finds an MPEG frame to read the stream info from
mp3_parses(data) ==
    /\ \E j \in 1..Len(data) : data[j][1] = "frame"
    /\ \A j \in 1..Len(data) : data[j][1] # "ff"

has_id3_header(data) == data # <<>> /\ data[1][1] = "ID3"

NoError == [raised |-> FALSE, error |-> "", index |-> -1]
ValueError(msg, index) == [raised |-> TRUE, error |-> msg, index |-> index]

\* reference_info = None
NoInfo == <<>>

RECURSIVE validate_buffers_sample_rate_only(_, _, _)
\* the validation loop comparing the sample rates and not the bitrates
validate_buffers_sample_rate_only(mp3_buffers, pos, reference_info) ==
    IF pos > Len(mp3_buffers) THEN NoError
    ELSE LET b == mp3_buffers[pos]
         IN  IF ~is_valid_mp3(b.data) THEN ValueError("Invalid MP3 buffer", -1)
             ELSE IF ~mp3_parses(b.data) THEN ValueError("Error parsing MP3 buffer", pos - 1)
             ELSE IF reference_info = NoInfo
             THEN validate_buffers_sample_rate_only(mp3_buffers, pos + 1, b.info)
             ELSE IF b.info[2] # reference_info[2]
             THEN ValueError("Inconsistent MP3 parameters", pos - 1)
             ELSE validate_buffers_sample_rate_only(mp3_buffers, pos + 1, reference_info)

RECURSIVE validate_buffers(_, _, _)
\* the validation loop; pos is index + 1; the outcome is the first error in
\* list order, with the index its message names (-1 when it names none)
validate_buffers(mp3_buffers, pos, reference_info) ==
    IF pos > Len(mp3_buffers) THEN NoError
    ELSE LET b == mp3_buffers[pos]
         IN  IF ~is_valid_mp3(b.data) THEN ValueError("Invalid MP3 buffer", -1)
             ELSE IF ~mp3_parses(b.data) THEN ValueError("Error parsing MP3 buffer", pos - 1)
             ELSE IF reference_info = NoInfo
             THEN validate_buffers(mp3_buffers, pos + 1, b.info)
             ELSE IF b.info # reference_info
             THEN ValueError("Inconsistent MP3 parameters", pos - 1)
             ELSE validate_buffers(mp3_buffers, pos + 1, reference_info)

\* "tags = ID3(io.BytesIO(data)); audio_offset = tags.size if tags else 0",
\* with ID3NoHeaderError giving offset 0
audio_offset(b) ==
    IF has_id3_header(b.data) /\ b.id3_frames THEN ID3Size ELSE 0

\* the value of the local name "tags" once buffer b has been through the
\* loop body: ID3(...) is assigned to it unless ID3NoHeaderError is raised
tags_after(tags, b, chunk) ==
    IF has_id3_header(b.data)
    THEN [from |-> "buffer", of |-> chunk, truthy |-> b.id3_frames]
    ELSE tags

\* output_buffer.write for the buffer at position pos of the list
written_part(b, pos) ==
    IF pos = 1 THEN b.data
    ELSE SubSeq(b.data, audio_offset(b) + 1, Len(b.data))

RECURSIVE combine_loop_prepend(_, _, _, _)
\* the combination loop writing each buffer in front of the earlier ones
combine_loop_prepend(mp3_buffers, pos, output_buffer, tags) ==
    IF pos > Len(mp3_buffers) THEN [output_buffer |-> output_buffer, tags |-> tags]
    ELSE LET b == mp3_buffers[pos]
         IN  combine_loop_prepend(mp3_buffers, pos + 1,
                                  written_part(b, pos) \o output_buffer,
                                  IF pos = 1 THEN tags ELSE tags_after(tags, b, b.data[1][2]))

RECURSIVE combine_loop(_, _, _, _)
\* the combination loop: the bytes written and the final value of "tags"
combine_loop(mp3_buffers, pos, output_buffer, tags) ==
    IF pos > Len(mp3_buffers) THEN [output_buffer |-> output_buffer, tags |-> tags]
    ELSE LET b == mp3_buffers[pos]
         IN  combine_loop(mp3_buffers, pos + 1,
                          output_buffer \o written_part(b, pos),
                          IF pos = 1 THEN tags ELSE tags_after(tags, b, b.data[1][2]))

NoOutput == [raised |-> FALSE, error |-> "", index |-> -1,
             audio |-> <<>>, tags |-> "", cover |-> FALSE]

Fails(e) == [NoOutput EXCEPT !.raised = TRUE, !.error = e.error, !.index = e.index]

\* combine_mp3_buffers(mp3_buffers, tags, album_art): tags is the caller's
\* dictionary ([from |-> "caller", truthy |-> it is given and not empty]),
\* album_art tells whether a cover image is given
combine_mp3_buffers(mp3_buffers, tags, album_art) ==
    IF mp3_buffers = <<>> THEN Fails(ValueError("No MP3 buffers provided", -1))
    ELSE
    LET checked == validate_buffers(mp3_buffers, 1, NoInfo)
        loop == combine_loop(mp3_buffers, 1, <<>>, tags)
        first_tagged == has_id3_header(mp3_buffers[1].data)
    IN  IF checked.raised THEN Fails(checked)
        \* audio.add_tags() on a file that already has an ID3 tag
        ELSE IF loop.tags.truthy /\ first_tagged
        THEN Fails([raised |-> TRUE, error |-> "an ID3 tag already exists", index |-> -1])
        \* audio[tag_key] = tag_value with the frame ids of an ID3 object
        ELSE IF loop.tags.truthy /\ loop.tags.from = "buffer"
        THEN Fails([raised |-> TRUE, error |-> "EasyID3KeyError", index |-> -1])
        \* ID3(output_buffer) for the cover when the output has no tag
        ELSE IF album_art /\ ~loop.tags.truthy /\ ~first_tagged
        THEN Fails([raised |-> TRUE, error |-> "ID3NoHeaderError", index |-> -1])
        ELSE [NoOutput EXCEPT !.audio = loop.output_buffer,
                              !.tags = IF loop.tags.truthy THEN "caller" ELSE "",
                              !.cover = album_art]

(***************************************************************************)
(* Course, CourseOutline, Lecture, CourseSettings, CourseGenerationInfo    *)
(* (models.py) and what the remote services may answer.                    *)
(***************************************************************************)

MAX_LECTURES == 100

\* Path values: a path not set, and the two output files of the course
(***************************************************************************)
(* utils/string_utils.py: sanitize_filename.  A string is the sequence of  *)
(* its characters.                                                         *)
(***************************************************************************)

\* the letters the model tells apart, lowercase and uppercase in one order
LowerCaseLetters == <<"a", "d", "e", "g", "h", "i", "l", "o", "p", "r", "s", "t", "u", "v", "y">>
UpperCaseLetters == <<"A", "D", "E", "G", "H", "I", "L", "O", "P", "R", "S", "T", "U", "V", "Y">>
Digits == {"0", "2", "5"}

Range(f) == {f[i] : i \in DOMAIN f}

\* the characters the pattern \w matches
WordChars == Range(LowerCaseLetters) \cup Range(UpperCaseLetters) \cup Digits \cup {"_"}

\* str.lower() and str.upper() of one character
char_lower(c) ==
    IF c \in Range(UpperCaseLetters)
    THEN LowerCaseLetters[CHOOSE i \in DOMAIN UpperCaseLetters : UpperCaseLetters[i] = c]
    ELSE c
char_upper(c) ==
    IF c \in Range(LowerCaseLetters)
    THEN UpperCaseLetters[CHOOSE i \in DOMAIN LowerCaseLetters : LowerCaseLetters[i] = c]
    ELSE c

\* str.lower() and str.upper()
str_lower(s) == [i \in 1..Len(s) |-> char_lower(s[i])]
str_upper(s) == [i \in 1..Len(s) |-> char_upper(s[i])]

Whitespace == {" "}

RECURSIVE lstrip(_)
lstrip(s) == IF s # <<>> /\ Head(s) \in Whitespace THEN lstrip(Tail(s)) ELSE s

RECURSIVE rstrip(_)
rstrip(s) ==
    IF s # <<>> /\ s[Len(s)] \in Whitespace THEN rstrip(SubSeq(s, 1, Len(s) - 1)) ELSE s

\* str.strip()
strip(s) == rstrip(lstrip(s))

\* str.replace(old, new) for one-character strings
replace(s, old, new) == [i \in 1..Len(s) |-> IF s[i] = old THEN new ELSE s[i]]

IsFilenameChar(c) == c \in WordChars \cup {"-"}
IsWordChar(c) == c \in WordChars

\* sanitize_filename with the pattern [^\w] in place of [^\w\-]
sanitize_filename_without_hyphens(name) ==
    SelectSeq(str_lower(replace(strip(name), " ", "_")), IsWordChar)

\* sanitize_filename(name)
sanitize_filename(name) ==
    SelectSeq(str_lower(replace(strip(name), " ", "_")), IsFilenameChar)

(***************************************************************************)
(* utils/string_utils.py: LLM_SMELLS and swap_words.                       *)
(***************************************************************************)

\* LLM_SMELLS: its first two entries, in the order of the dictionary
LLM_SMELLS ==
    <<[key |-> <<"d", "e", "l", "v", "e">>,      value |-> <<"d", "i", "g">>],
      [key |-> <<"d", "e", "l", "v", "e", "d">>, value |-> <<"d", "u", "g">>]>>

IsCased(c) == c \in Range(LowerCaseLetters) \cup Range(UpperCaseLetters)

\* str.isupper()
isupper(word) ==
    /\ \E i \in 1..Len(word) : IsCased(word[i])
    /\ \A i \in 1..Len(word) : word[i] \notin Range(LowerCaseLetters)

\* str.istitle(): an uppercase character follows no cased character, a
\* lowercase character follows a cased one
istitle(word) ==
    /\ \E i \in 1..Len(word) : IsCased(word[i])
    /\ \A i \in 1..Len(word) :
          LET after_cased == i > 1 /\ IsCased(word[i - 1])
          IN  /\ word[i] \in Range(UpperCaseLetters) => ~after_cased
              /\ word[i] \in Range(LowerCaseLetters) => after_cased

\* str.capitalize()
capitalize(s) ==
    [i \in 1..Len(s) |-> IF i = 1 THEN char_upper(s[i]) ELSE char_lower(s[i])]

\* _replacement_callable(match): replacements[word.casefold()] in the case
\* of the word matched
replacement_callable(word, replacements) ==
    LET k == CHOOSE k \in 1..Len(replacements) : replacements[k].key = str_lower(word)
        replacement == replacements[k].value
    IN  IF isupper(word) THEN str_upper(replacement)
        ELSE IF istitle(word) THEN capitalize(replacement)
        ELSE replacement

\* the pattern \b taken to hold between any two characters
word_boundary_anywhere(text, p) == TRUE

\* \b at the position in front of text[p]: a word character on one side only
word_boundary(text, p) ==
    LET before == p > 1 /\ text[p - 1] \in WordChars
        after == p <= Len(text) /\ text[p] \in WordChars
    IN  before # after

\* the key k matches at text[p], whatever the case: \b(key)\b, re.IGNORECASE
key_matches(text, p, key) ==
    /\ p + Len(key) - 1 <= Len(text)
    /\ str_lower(SubSeq(text, p, p + Len(key) - 1)) = str_lower(key)
    /\ word_boundary(text, p)
    /\ word_boundary(text, p + Len(key))

\* the alternative of the pattern that matches at text[p]: the first key of
\* the dictionary that does, 0 when none does
match_at(text, p, replacements) ==
    LET matching == {k \in 1..Len(replacements) : key_matches(text, p, replacements[k].key)}
    IN  IF matching = {} THEN 0
        ELSE CHOOSE k \in matching : \A j \in matching : k <= j

RECURSIVE pattern_sub(_, _, _)
\* pattern.sub(_replacement_callable, text) from position p on
pattern_sub(text, p, replacements) ==
    IF p > Len(text) THEN <<>>
    ELSE LET k == match_at(text, p, replacements)
         IN  IF k = 0 THEN <<text[p]>> \o pattern_sub(text, p + 1, replacements)
             ELSE LET word == SubSeq(text, p, p + Len(replacements[k].key) - 1)
                  IN  replacement_callable(word, replacements)
                         \o pattern_sub(text, p + Len(word), replacements)

\* swap_words(text, replacements)
swap_words(text, replacements) == pattern_sub(text, 1, replacements)

RECURSIVE str(_)
\* the string of a sequence of characters
str(s) == IF s = <<>> THEN "" ELSE Head(s) \o str(Tail(s))

\* Path(name).with_suffix(suffix) of a name without a dot
with_suffix(name, suffix) == str(name) \o suffix

\* the title the caller gives the course, and the titles the text model
\* may put on the outline it returns
CallerTitleChars == <<"G", "r", "a", "p", "h", " ", "T", "h", "e", "o", "r", "y">>
CallerTitle == str(CallerTitleChars)

NoPath == "None"
ImagePath == with_suffix(sanitize_filename(CallerTitleChars), ".png")
AudioPath == with_suffix(sanitize_filename(CallerTitleChars), ".mp3")
RemoteTitles == {"Graph Theory", "graph theory", "Graph Theory: A Primer"}

\* str.lower()
lower(t) ==
    CASE t = "Graph Theory"           -> "graph theory"
      [] t = "Graph Theory: A Primer" -> "graph theory: a primer"
      [] OTHER                        -> t

\* course.outline = None, course.lectures = None
NoOutline == [present |-> FALSE, title |-> "", topics |-> <<>>]
NoLectures == [present |-> FALSE, list |-> <<>>]

\* Course(title=t) with settings.output_directory d and num_lectures n
NewCourse(t, d, n) ==
    [title |-> t,
     outline |-> NoOutline,
     lectures |-> NoLectures,
     settings |-> [output_directory |-> d, num_lectures |-> n],
     generation_info |->
        [input_token_count |-> 0, output_token_count |-> 0,
         tts_character_count |-> 0, num_images_generated |-> 0,
         audio_file_path |-> NoPath, image_file_path |-> NoPath]]

\* the parsed CourseOutline of a completion: topic i of the answer has the
\* number ns[i]; its title and subtopics are told apart by i
TopicsOf(ns) == [i \in 1..Len(ns) |-> [number |-> ns[i], title |-> i]]

\* sequences over S of length lo..hi
SeqsOf(S, lo, hi) == UNION {[1..n -> S] : n \in lo..hi}

\* answers of the text model to the outline request: usage is the token
\* count it reports (0: no usage reported)
OutlineResponses ==
    {[usage |-> 1, title |-> CallerTitle, topics |-> TopicsOf(ns)] :
        ns \in SeqsOf(1..MaxTopics, 0, MaxTopics)}
    \cup {[usage |-> 0, title |-> t, topics |-> TopicsOf([i \in 1..MaxTopics |-> i])] :
              t \in RemoteTitles \ {CallerTitle}}

\* answers of the text model to a lecture request: the text is given by
\* the lengths of its sentences, as it is after strip() and swap_words()
LectureResponses == {[usage |-> 1, text |-> <<1>>], [usage |-> 0, text |-> <<3>>]}

\* answers of the speech model: the kind of buffer streamed back
SpeechResponses == {"plain", "badlead"}

\* answers of the image model: image data, or an empty data list
ImageResponses == {"data", "empty"}

\* the audio path set where the output directory is resolved, not after
\* the speech tasks
resolve_output_directory_setting_path(c) ==
    [c EXCEPT !.settings.output_directory = "resolved",
              !.generation_info.audio_file_path = AudioPath]

\* line 245 (and 335, 363, 447): output_directory.expanduser().resolve()
resolve_output_directory(c) == [c EXCEPT !.settings.output_directory = "resolved"]

\* the title compared with None only
title_missing_when_none(c) == c.title = "None"

\* "if not course.title or course.title.strip() == ''"
title_missing(c) == c.title \in {"None", "", " "}

\* the lecture count refused from the maximum on
too_many_lectures_from_max(c) == c.settings.num_lectures >= MAX_LECTURES

\* line 240: course.settings.num_lectures > MAX_LECTURES
too_many_lectures(c) == c.settings.num_lectures > MAX_LECTURES

\* lines 266-276 without the reset of the title
store_outline_as_returned(c, resp) ==
    [c EXCEPT !.generation_info.input_token_count = @ + resp.usage,
              !.generation_info.output_token_count = @ + resp.usage,
              !.outline = [present |-> TRUE, title |-> resp.title,
                           topics |-> resp.topics]]

\* lines 266-276: the usage is counted, the title is reset when it differs
\* from the course title otherwise than by case, the outline is stored
store_outline(c, resp) ==
    [c EXCEPT !.generation_info.input_token_count = @ + resp.usage,
              !.generation_info.output_token_count = @ + resp.usage,
              !.outline = [present |-> TRUE,
                           title |-> IF lower(resp.title) # lower(c.title)
                                     THEN c.title ELSE resp.title,
                           topics |-> resp.topics]]

\* line 292: next((t for t in course.outline.topics if t.number == n), None);
\* the number always is the number of a topic of the outline
find_topic(topics, lecture_number) ==
    topics[CHOOSE i \in 1..Len(topics) :
              /\ topics[i].number = lecture_number
              /\ \A j \in 1..(i - 1) : topics[j].number # lecture_number]

\* lines 314-316, the lecture stored in course.lectures as soon as its
\* text is received
count_lecture_usage_storing(c, resp) ==
    [c EXCEPT !.generation_info.input_token_count = @ + resp.usage,
              !.generation_info.output_token_count = @ + resp.usage,
              !.lectures = [present |-> TRUE,
                            list |-> @.list \o <<[number |-> 0, title |-> 0,
                                                  text |-> resp.text]>>]]

\* lines 314-316
count_lecture_usage(c, resp) ==
    [c EXCEPT !.generation_info.input_token_count = @ + resp.usage,
              !.generation_info.output_token_count = @ + resp.usage]

\* line 324: Lecture(**topic.model_dump(), text=lecture_text)
Lecture(topic, lecture_text) ==
    [number |-> topic.number, title |-> topic.title, text |-> lecture_text]

\* line 435, the characters sent counted without being added to the count
count_tts_characters_overwriting(c, text_chunk) ==
    [c EXCEPT !.generation_info.tts_character_count = Len(text_chunk)]

\* line 435: tts_character_count += len(text_chunk)
count_tts_characters(c, text_chunk) ==
    [c EXCEPT !.generation_info.tts_character_count = @ + Len(text_chunk)]

RECURSIVE lecture_sentences(_)
lecture_sentences(lectures) ==
    IF lectures = <<>> THEN <<>>
    ELSE lectures[1].text \o lecture_sentences(Tail(lectures))

\* lines 452-457: the course text, given by the lengths of its sentences
course_text(c) == <<DisclosureLen>> \o lecture_sentences(c.lectures.list)

\* how a request to a remote service may fail: with the rate-limit signal
\* of the service, or otherwise
FailureKinds == {"rate_limit", "other"}

\* the request sent once more after any failure
retry_after_failure_once(kind, attempts) == attempts < 2

\* lines 306, 368, 426 and 256: the request is awaited once; no loop is
\* around it, and the only handler (398-408) raises the error again
retry_after_failure(kind, attempts) == FALSE

\* a task of a TaskGroup: arg is the lecture number or the chunk number.
\* The tasks, created in one step of the calling coroutine, run up to their
\* remote request in the pass of the event loop that follows, before any
\* answer is handled: a task is "awaiting" from its creation on
NewTask(arg) == [state |-> "awaiting", arg |-> arg]

Terminal == {"done", "failed", "cancelled"}

\* a TaskGroup never lets an exception of its tasks out
group_raises_never(tasks) == FALSE

\* TaskGroup.__aexit__ raises the ExceptionGroup of the tasks that failed
group_raises(tasks) == \E i \in 1..Len(tasks) : tasks[i].state = "failed"

\* TaskGroup._abort(): every task that has not finished is cancelled
abort_tasks(tasks) ==
    [i \in 1..Len(tasks) |->
        IF tasks[i].state \in Terminal THEN tasks[i]
        ELSE [tasks[i] EXCEPT !.state = "cancelled"]]

RECURSIVE task_results_reversed(_, _)
\* the results taken from the last task created to the first
task_results_reversed(tasks, results) ==
    IF tasks = <<>> THEN <<>>
    ELSE task_results_reversed(Tail(tasks), Tail(results))
         \o (IF tasks[1].state = "done" THEN <<results[1]>> ELSE <<>>)

\* [task.result() for task in tasks]
RECURSIVE task_results(_, _)
task_results(tasks, results) ==
    IF tasks = <<>> THEN <<>>
    ELSE (IF tasks[1].state = "done" THEN <<results[1]>> ELSE <<>>)
         \o task_results(Tail(tasks), Tail(results))

\* generate_course, lines 528-531: the stage called after stage fn
next_stage(fn) ==
    CASE fn = "generate_outline"  -> "generate_lectures"
      [] fn = "generate_lectures" -> "generate_image"
      [] fn = "generate_image"    -> "generate_audio"
      [] OTHER                    -> "off"

\* generate_course going on to the audio when the image stage raises
stage_after_image_failure_ignored(fn, result) ==
    IF result = "raised" /\ fn # "generate_image" THEN "off" ELSE next_stage(fn)

\* generate_course, lines 528-531: no stage follows one that raises, the
\* exception leaves generate_course
stage_after(fn, result) ==
    IF result = "raised" THEN "off" ELSE next_stage(fn)

VARIABLES
    \* SpecCombine: the arguments of combine_mp3_buffers and its outcome
    mp3_buffers, tags, album_art, combine_result,
    \* SpecChunk: the text (its sentence lengths), max_chunk_size, and the
    \* outcome of each of the two functions once it has been called
    text, max_chunk_size, split_result, utils_split_result,
    \* Spec: the Course given to the generator
    course,
    \* the output directory: files.image tells whether the cover image
    \* exists, files.audio and files.json hold what was last written to the
    \* audio file and to the JSON file of the course
    files,
    \* generate_course: the stage it is to call or is running ("off" when
    \* it is not running) with the value of its local "course", how its
    \* last run ended, and the calls, returns and raises of that run
    gc, gc_result, gc_log,
    \* the stage running and where it is suspended
    call,
    \* the tasks of the TaskGroup of the stage, and their results
    tasks, results,
    \* the text chunks of generate_audio
    course_chunks,
    \* how the last stage ended
    outcome,
    \* the Course and the files as they were when the last stage was called
    course_before, files_before,
    \* the requests of the stage running: requests.sent[i] is how many times
    \* the request of task i (of the stage, when it has one request) has been
    \* sent; requests.failure is the failure that last came out of a request
    requests,
    \* the CourseGeneratorSettings the user configured (settings.py)
    settings,
    \* sanitize_filename(name) and what it returned
    name, sanitize_result,
    \* swap_words(lecture_text, LLM_SMELLS) and what it returned
    lecture_text, swap_result

chunk_vars == <<text, max_chunk_size, split_result, utils_split_result>>
combine_vars == <<mp3_buffers, tags, album_art, combine_result>>

gen_vars == <<course, files, gc, gc_result, gc_log, call, tasks, results,
              course_chunks, outcome, course_before, files_before, requests, settings>>

string_vars == <<name, sanitize_result, lecture_text, swap_result>>

vars == <<chunk_vars, combine_vars, gen_vars, string_vars>>

\* the outcome of a function not called yet, and of one that has run
NotCalled == [called |-> FALSE, raised |-> FALSE, chunks |-> <<>>]
Returned(r) == [called |-> TRUE, raised |-> r.raised, chunks |-> r.chunks]

NotCombined == [NoOutput EXCEPT !.error = "not called"]

\* the variables of SpecCombine while another specification runs
CombineIdle ==
    /\ mp3_buffers = <<>>
    /\ tags = [from |-> "caller", of |-> 0, truthy |-> FALSE]
    /\ album_art = FALSE
    /\ combine_result = NotCombined

\* the variables of SpecChunk while another specification runs
ChunkIdle ==
    /\ text = <<>>
    /\ max_chunk_size = 0
    /\ split_result = NotCalled
    /\ utils_split_result = NotCalled

NotSanitized == [called |-> FALSE, name |-> <<>>]
NotSwapped == [called |-> FALSE, text |-> <<>>]

\* the variables of SpecSwap while another specification runs
SwapIdle ==
    /\ lecture_text = <<>>
    /\ swap_result = NotSwapped

\* the variables of SpecSanitize while another specification runs
SanitizeIdle ==
    /\ name = <<>>
    /\ sanitize_result = NotSanitized

StringIdle == SanitizeIdle /\ SwapIdle

Idle == [fn |-> "none", pc |-> ""]
Off == [pc |-> "off", arg |-> "course"]
NoOutcome == [fn |-> "none", result |-> "", error |-> ""]
NoFailure == [kind |-> "none", attempts |-> 0]
NoRequests == [sent |-> <<>>, failure |-> NoFailure]
SentOnce(n) == [sent |-> [i \in 1..n |-> 1], failure |-> NoFailure]

\* the request i of the stage fails and the failure comes out of it
Surfaced(kind, i) ==
    [requests EXCEPT !.failure = [kind |-> kind, attempts |-> requests.sent[i]]]

\* the request i of the stage is sent again
SentAgain(i) == [requests EXCEPT !.sent[i] = @ + 1]

NoFiles ==
    [image |-> FALSE,
     audio |-> [written |-> FALSE, content |-> <<>>],
     json |-> [written |-> FALSE, course |-> NewCourse("", "", 0)]]

\* the state of a generator just constructed for Course c
GenInit(c) ==
    /\ course = c
    /\ files = NoFiles
    /\ gc = Off
    /\ gc_result = "none"
    /\ gc_log = <<>>
    /\ call = Idle
    /\ tasks = <<>>
    /\ results = <<>>
    /\ course_chunks = <<>>
    /\ outcome = NoOutcome
    /\ course_before = c
    /\ files_before = NoFiles
    /\ requests = NoRequests

\* default_generator_settings (okcourse.py) and the values a user may give
\* max_concurrent_requests
default_max_concurrent_requests == 32
ConfiguredLimits == {1, default_max_concurrent_requests}
GeneratorSettings(m) == [max_concurrent_requests |-> m]

\* the variables of Spec while another specification runs
GenIdle ==
    /\ GenInit(NewCourse("", "", 0))
    /\ settings = GeneratorSettings(default_max_concurrent_requests)

\* the names given to sanitize_filename: every string of at most MaxNameLen
\* characters of NameAlphabet, and the title "AI & You: 2025!"
NameAlphabet == {"a", "A", "2", " ", "&", "-", "_"}
ExampleTitle == <<"A", "I", " ", "&", " ", "Y", "o", "u", ":", " ", "2", "0", "2", "5", "!">>
Names(n) == SeqsOf(NameAlphabet, 0, n) \cup {ExampleTitle}

SanitizeInit ==
    /\ name \in Names(MaxNameLen)
    /\ sanitize_result = NotSanitized
    /\ SwapIdle
    /\ ChunkIdle
    /\ CombineIdle
    /\ GenIdle

\* a caller runs sanitize_filename(name)
CallSanitize ==
    /\ ~sanitize_result.called
    /\ sanitize_result' = [called |-> TRUE, name |-> sanitize_filename(name)]
    /\ UNCHANGED <<name, lecture_text, swap_result, chunk_vars, combine_vars, gen_vars>>

SanitizeNext == CallSanitize

SpecSanitize == SanitizeInit /\ [][SanitizeNext]_vars

\* the pieces the lecture texts are made of: a key in four letter cases, a
\* second key that starts with the first, a word that holds a key without
\* being one, a letter, and three separators of which "_" is a word character
Pieces ==
    {<<"d", "e", "l", "v", "e">>, <<"D", "e", "l", "v", "e">>, <<"D", "E", "L", "V", "E">>,
     <<"d", "E", "l", "v", "e">>, <<"d", "e", "l", "v", "e", "d">>,
     <<"d", "e", "l", "v", "e", "r">>, <<"s">>, <<" ">>, <<"-">>, <<"_">>}

RECURSIVE Flatten(_)
Flatten(ps) == IF ps = <<>> THEN <<>> ELSE Head(ps) \o Flatten(Tail(ps))

LectureTexts(n) == {Flatten(ps) : ps \in SeqsOf(Pieces, 0, n)}

SwapInit ==
    /\ lecture_text \in LectureTexts(MaxPieces)
    /\ swap_result = NotSwapped
    /\ SanitizeIdle
    /\ ChunkIdle
    /\ CombineIdle
    /\ GenIdle

\* _generate_lecture, line 318: swap_words(lecture_text, LLM_SMELLS)
CallSwap ==
    /\ ~swap_result.called
    /\ swap_result' = [called |-> TRUE, text |-> swap_words(lecture_text, LLM_SMELLS)]
    /\ UNCHANGED <<lecture_text, name, sanitize_result, chunk_vars, combine_vars, gen_vars>>

SwapNext == CallSwap

SpecSwap == SwapInit /\ [][SwapNext]_vars

Texts == SeqsOf(1..MaxSentLen, 0, MaxSentences)

ChunkInit ==
    /\ text \in Texts
    /\ max_chunk_size \in 0..MaxChunk
    /\ split_result = NotCalled
    /\ utils_split_result = NotCalled
    /\ CombineIdle
    /\ GenIdle
    /\ StringIdle

\* a caller runs utils/string_utils.py split_text_into_chunks(text, max_chunk_size)
CallSplit ==
    /\ ~split_result.called
    /\ split_result' = Returned(split_text_into_chunks(sent_tokenize(text), max_chunk_size))
    /\ UNCHANGED <<text, max_chunk_size, utils_split_result, combine_vars, string_vars, gen_vars>>

\* a caller runs utils.py split_text_into_chunks(text, max_chunk_size)
CallUtilsSplit ==
    /\ ~utils_split_result.called
    /\ utils_split_result' = Returned(utils_split_text_into_chunks(sent_tokenize(text), max_chunk_size))
    /\ UNCHANGED <<text, max_chunk_size, split_result, combine_vars, string_vars, gen_vars>>

ChunkNext == CallSplit \/ CallUtilsSplit

SpecChunk == ChunkInit /\ [][ChunkNext]_vars

(***************************************************************************)
(* SpecCombine: a caller of combine_mp3_buffers hands it the buffers made  *)
(* for chunks 1..n, in an order of the caller's choice.                    *)
(***************************************************************************)

Orders(n) == {p \in [1..n -> 1..n] : \A i, j \in 1..n : p[i] = p[j] => i = j}

\* the lists of n buffers, one per chunk, of any kinds and in any order
BufferLists(n) ==
    {[i \in 1..n |-> Buffer(p[i], k[i])] : p \in Orders(n), k \in [1..n -> BufferKinds]}

CombineInit ==
    /\ \E n \in 0..MaxBuffers : mp3_buffers \in BufferLists(n)
    /\ tags \in {[from |-> "caller", of |-> 0, truthy |-> t] : t \in BOOLEAN}
    /\ album_art \in BOOLEAN
    /\ combine_result = NotCombined
    /\ ChunkIdle
    /\ GenIdle
    /\ StringIdle

CallCombine ==
    /\ combine_result = NotCombined
    /\ combine_result' = combine_mp3_buffers(mp3_buffers, tags, album_art)
    /\ UNCHANGED <<mp3_buffers, tags, album_art, chunk_vars, string_vars, gen_vars>>

CombineNext == CallCombine

SpecCombine == CombineInit /\ [][CombineNext]_vars

(***************************************************************************)
(* Spec: OpenAIAsyncGenerator.  Its user calls generate_course, or one of  *)
(* the stages, on a Course that is new or that earlier stages have filled; *)
(* a stage is suspended at its remote call, or at the end of the TaskGroup *)
(* whose tasks run and finish in any order.                                *)
(***************************************************************************)

\* the user of the generator has made no call yet
NothingCalled == call = Idle /\ gc.pc = "off" /\ gc_result = "none" /\ outcome = NoOutcome

\* stage fn may be called now: by generate_course when it has come to it,
\* or else by the user of the generator, who makes one call
MayCall(fn) ==
    /\ call = Idle
    /\ IF gc.pc = "off" THEN NothingCalled ELSE gc.pc = fn

\* a stage is entered
Enter ==
    /\ course_before' = course
    /\ files_before' = files

Called(fn) == [ev |-> "call", fn |-> fn]
Ended(fn, result) == [ev |-> result, fn |-> fn]

LogAfter(evs) == IF gc.pc = "off" THEN gc_log ELSE gc_log \o evs

\* the stage goes on to its suspension point pc
Continue(fn, pc, evs) ==
    /\ call' = [fn |-> fn, pc |-> pc]
    /\ gc_log' = LogAfter(evs)
    /\ UNCHANGED <<gc, gc_result, outcome>>

\* the stage returns or raises; generate_course, when it made the call,
\* passes what was returned to the next stage, and lets an exception through
Finish(fn, result, error, evs) ==
    /\ call' = Idle
    /\ outcome' = [fn |-> fn, result |-> result, error |-> error]
    /\ gc_log' = LogAfter(evs \o <<Ended(fn, result)>>)
    /\ IF gc.pc = "off" THEN UNCHANGED <<gc, gc_result>>
       ELSE IF stage_after(fn, result) = "off"
       THEN /\ gc' = Off
            /\ gc_result' = IF result = "raised" THEN "raised" ELSE "returned"
       ELSE /\ gc' = [pc |-> stage_after(fn, result),
                      arg |-> IF result = "returned None" THEN "None" ELSE "course"]
            /\ UNCHANGED gc_result

NotEntering == UNCHANGED <<course_before, files_before>>

\* generate_course(course) is called
CallGenerateCourse ==
    /\ NothingCalled
    /\ gc' = [pc |-> "generate_outline", arg |-> "course"]
    /\ gc_result' = "running"
    /\ gc_log' = <<>>
    /\ UNCHANGED <<course, files, call, tasks, results, course_chunks, outcome,
                   course_before, files_before, combine_vars, chunk_vars, string_vars, settings, requests>>

\* generate_outline, lines 236-256, up to the request sent to the text model
OutlineCall ==
    /\ MayCall("generate_outline")
    /\ Enter
    /\ IF title_missing(course) \/ too_many_lectures(course)
       THEN /\ Finish("generate_outline", "raised", "ValueError", <<Called("generate_outline")>>)
            /\ requests' = NoRequests
            /\ UNCHANGED course
       ELSE /\ course' = resolve_output_directory(course)
            /\ requests' = SentOnce(1)
            /\ Continue("generate_outline", "await", <<Called("generate_outline")>>)
    /\ UNCHANGED <<files, tasks, results, course_chunks, combine_vars, chunk_vars, string_vars, settings>>

\* generate_outline, lines 264-277: the text model answers
OutlineResponse ==
    /\ call = [fn |-> "generate_outline", pc |-> "await"]
    /\ \E resp \in OutlineResponses : course' = store_outline(course, resp)
    /\ Finish("generate_outline", "returned", "", <<>>)
    /\ NotEntering
    /\ UNCHANGED <<files, tasks, results, course_chunks, combine_vars, chunk_vars, string_vars, settings, requests>>

\* generate_outline: the request to the text model fails
OutlineFails ==
    /\ call = [fn |-> "generate_outline", pc |-> "await"]
    /\ \E kind \in FailureKinds :
          IF retry_after_failure(kind, requests.sent[1])
          THEN /\ requests' = SentAgain(1)
               /\ UNCHANGED <<gc, gc_result, gc_log, call, outcome>>
          ELSE /\ requests' = Surfaced(kind, 1)
               /\ Finish("generate_outline", "raised", "remote", <<>>)
    /\ NotEntering
    /\ UNCHANGED <<course, files, tasks, results, course_chunks, combine_vars, chunk_vars, string_vars, settings>>

\* generate_lectures, lines 335-345, and _generate_lecture, lines 292-306:
\* one task is created per topic of the outline, looks its topic up by
\* number and sends its request; course.outline.topics of a course without outline raises
LecturesCall ==
    /\ MayCall("generate_lectures")
    /\ Enter
    /\ course' = resolve_output_directory(course)
    /\ IF ~course.outline.present
       THEN /\ Finish("generate_lectures", "raised", "AttributeError", <<Called("generate_lectures")>>)
            /\ requests' = NoRequests
            /\ UNCHANGED <<tasks, results>>
       ELSE /\ tasks' = [i \in 1..Len(course.outline.topics) |->
                            NewTask(course.outline.topics[i].number)]
            /\ results' = [i \in 1..Len(course.outline.topics) |->
                              Lecture(find_topic(course.outline.topics,
                                                 course.outline.topics[i].number), <<>>)]
            /\ requests' = SentOnce(Len(course.outline.topics))
            /\ Continue("generate_lectures", "group", <<Called("generate_lectures")>>)
    /\ UNCHANGED <<files, course_chunks, combine_vars, chunk_vars, string_vars, settings>>

InGroup(fn) == call = [fn |-> fn, pc |-> "group"]

StageFrame == UNCHANGED <<gc, gc_result, gc_log, call, outcome, course_before, files_before>>

\* _generate_lecture, lines 314-324: the text model answers
LectureDone(i) ==
    /\ InGroup("generate_lectures")
    /\ i \in 1..Len(tasks) /\ tasks[i].state = "awaiting"
    /\ \E resp \in LectureResponses :
          /\ course' = count_lecture_usage(course, resp)
          /\ results' = [results EXCEPT ![i].text = resp.text]
    /\ tasks' = [tasks EXCEPT ![i].state = "done"]
    /\ StageFrame
    /\ UNCHANGED <<files, course_chunks, combine_vars, chunk_vars, string_vars, settings, requests>>

\* _generate_lecture: the request to the text model fails
LectureFails(i) ==
    /\ InGroup("generate_lectures")
    /\ i \in 1..Len(tasks) /\ tasks[i].state = "awaiting"
    /\ \E kind \in FailureKinds :
          IF retry_after_failure(kind, requests.sent[i])
          THEN requests' = SentAgain(i) /\ UNCHANGED tasks
          ELSE /\ requests' = Surfaced(kind, i)
               /\ tasks' = [tasks EXCEPT ![i].state = "failed"]
    /\ StageFrame
    /\ UNCHANGED <<course, files, results, course_chunks, combine_vars, chunk_vars, string_vars, settings>>

\* the TaskGroup, told of a failed task, cancels the tasks still running
AbortGroup ==
    /\ call.pc = "group"
    /\ group_raises(tasks)
    /\ \E i \in 1..Len(tasks) : tasks[i].state \notin Terminal
    /\ tasks' = abort_tasks(tasks)
    /\ StageFrame
    /\ UNCHANGED <<course, files, results, course_chunks, combine_vars, chunk_vars, string_vars, settings, requests>>

AllTerminal == \A i \in 1..Len(tasks) : tasks[i].state \in Terminal

\* generate_lectures, lines 339-349: the TaskGroup ends
LecturesJoin ==
    /\ InGroup("generate_lectures")
    /\ AllTerminal
    /\ IF group_raises(tasks)
       THEN /\ Finish("generate_lectures", "raised", "remote", <<>>)
            /\ UNCHANGED course
       ELSE /\ course' = [course EXCEPT !.lectures =
                             [present |-> TRUE, list |-> task_results(tasks, results)]]
            /\ Finish("generate_lectures", "returned", "", <<>>)
    /\ tasks' = <<>>
    /\ results' = <<>>
    /\ requests' = [requests EXCEPT !.sent = <<>>]
    /\ NotEntering
    /\ UNCHANGED <<files, course_chunks, combine_vars, chunk_vars, string_vars, settings>>

\* generate_image, lines 363-368, up to the request sent to the image model
ImageCall ==
    /\ MayCall("generate_image")
    /\ Enter
    /\ course' = resolve_output_directory(course)
    /\ requests' = SentOnce(1)
    /\ Continue("generate_image", "await", <<Called("generate_image")>>)
    /\ UNCHANGED <<files, tasks, results, course_chunks, combine_vars, chunk_vars, string_vars, settings>>

\* generate_image, lines 378-396: the image model answers; without image
\* data the stage returns None, else the image and the course are saved
ImageResponse ==
    /\ call = [fn |-> "generate_image", pc |-> "await"]
    /\ \E resp \in ImageResponses :
          IF resp = "empty"
          THEN /\ Finish("generate_image", "returned None", "", <<>>)
               /\ UNCHANGED <<course, files>>
          ELSE IF title_missing(course)
          \* lines 382-388: the image is counted, then sanitize_filename(None)
          \* or Path("").with_suffix(".png") raises
          THEN /\ course' = [course EXCEPT !.generation_info.num_images_generated = @ + 1]
               /\ Finish("generate_image", "raised",
                         IF course.title = "None" THEN "AttributeError" ELSE "ValueError", <<>>)
               /\ UNCHANGED files
          ELSE LET saved == [course EXCEPT
                                !.generation_info.num_images_generated = @ + 1,
                                !.generation_info.image_file_path = ImagePath]
               IN  /\ course' = saved
                   /\ files' = [files EXCEPT !.image = TRUE,
                                             !.json = [written |-> TRUE, course |-> saved]]
                   /\ Finish("generate_image", "returned", "", <<>>)
    /\ NotEntering
    /\ UNCHANGED <<tasks, results, course_chunks, combine_vars, chunk_vars, string_vars, settings, requests>>

\* generate_image, lines 398-408: the request fails and the error is raised
ImageFails ==
    /\ call = [fn |-> "generate_image", pc |-> "await"]
    /\ \E kind \in FailureKinds :
          IF retry_after_failure(kind, requests.sent[1])
          THEN /\ requests' = SentAgain(1)
               /\ UNCHANGED <<gc, gc_result, gc_log, call, outcome>>
          ELSE /\ requests' = Surfaced(kind, 1)
               /\ Finish("generate_image", "raised", "remote", <<>>)
    /\ NotEntering
    /\ UNCHANGED <<course, files, tasks, results, course_chunks, combine_vars, chunk_vars, string_vars, settings>>

\* generate_audio, lines 447-472: the course text is split and one task is
\* created per chunk; a course that is None (generate_course after an image
\* stage that returned None) or without lectures raises before that
AudioCall ==
    /\ MayCall("generate_audio")
    /\ Enter
    /\ mp3_buffers' = <<>>
    /\ combine_result' = NotCombined
    /\ UNCHANGED <<tags, album_art>>
    /\ LET split == split_text_into_chunks(sent_tokenize(course_text(course)), AudioChunkSize)
           called == <<Called("generate_audio")>>
       IN  IF gc.pc # "off" /\ gc.arg = "None"
           THEN /\ Finish("generate_audio", "raised", "AttributeError", called)
                /\ requests' = NoRequests
                /\ UNCHANGED <<course, tasks, results, course_chunks>>
           ELSE /\ course' = resolve_output_directory(course)
                /\ IF ~course.lectures.present
                   THEN /\ Finish("generate_audio", "raised", "TypeError", called)
                        /\ requests' = NoRequests
                        /\ UNCHANGED <<tasks, results, course_chunks>>
                   ELSE IF split.raised
                   THEN /\ Finish("generate_audio", "raised", "ValueError", called)
                        /\ requests' = NoRequests
                        /\ UNCHANGED <<tasks, results, course_chunks>>
                   ELSE /\ course_chunks' = split.chunks
                        /\ tasks' = [i \in 1..Len(split.chunks) |-> NewTask(i)]
                        /\ results' = [i \in 1..Len(split.chunks) |-> Buffer(i, "plain")]
                        /\ requests' = SentOnce(Len(split.chunks))
                        /\ Continue("generate_audio", "group", called)
    /\ UNCHANGED <<files, chunk_vars, string_vars, settings>>

\* _generate_speech_for_text_chunk, lines 431-438: the audio is received,
\* the characters of the chunk are counted and the buffer is returned
SpeechDone(i) ==
    /\ InGroup("generate_audio")
    /\ i \in 1..Len(tasks) /\ tasks[i].state = "awaiting"
    /\ \E kind \in SpeechResponses :
          results' = [results EXCEPT ![i] = Buffer(tasks[i].arg, kind)]
    /\ course' = count_tts_characters(course, course_chunks[tasks[i].arg])
    /\ tasks' = [tasks EXCEPT ![i].state = "done"]
    /\ StageFrame
    /\ UNCHANGED <<files, course_chunks, combine_vars, chunk_vars, string_vars, settings, requests>>

\* _generate_speech_for_text_chunk: the request to the speech model fails
SpeechFails(i) ==
    /\ InGroup("generate_audio")
    /\ i \in 1..Len(tasks) /\ tasks[i].state = "awaiting"
    /\ \E kind \in FailureKinds :
          IF retry_after_failure(kind, requests.sent[i])
          THEN requests' = SentAgain(i) /\ UNCHANGED tasks
          ELSE /\ requests' = Surfaced(kind, i)
               /\ tasks' = [tasks EXCEPT ![i].state = "failed"]
    /\ StageFrame
    /\ UNCHANGED <<course, files, results, course_chunks, combine_vars, chunk_vars, string_vars, settings>>

\* generate_audio, lines 463-516: the TaskGroup ends; the buffers are taken
\* in task order, the audio path is set, the buffers are combined and the
\* audio file and the course are saved
AudioJoin ==
    /\ InGroup("generate_audio")
    /\ AllTerminal
    /\ IF group_raises(tasks)
       THEN /\ Finish("generate_audio", "raised", "remote", <<>>)
            /\ UNCHANGED <<course, files, combine_vars>>
       ELSE LET audio_chunks == task_results(tasks, results)
                cover == course.generation_info.image_file_path # NoPath /\ files.image
                given == [from |-> "caller", of |-> 0, truthy |-> TRUE]
                pathed == [course EXCEPT !.generation_info.audio_file_path = AudioPath]
                combined == combine_mp3_buffers(audio_chunks, given, cover)
            IN  /\ mp3_buffers' = audio_chunks
                /\ tags' = given
                /\ album_art' = cover
                /\ combine_result' = combined
                /\ course' = pathed
                /\ IF combined.raised
                   THEN /\ Finish("generate_audio", "raised", "ValueError", <<>>)
                        /\ UNCHANGED files
                   ELSE /\ files' = [files EXCEPT
                                        !.audio = [written |-> TRUE, content |-> combined.audio],
                                        !.json = [written |-> TRUE, course |-> pathed]]
                        /\ Finish("generate_audio", "returned", "", <<>>)
    /\ tasks' = <<>>
    /\ results' = <<>>
    /\ requests' = [requests EXCEPT !.sent = <<>>]
    /\ NotEntering
    /\ UNCHANGED <<course_chunks, chunk_vars, string_vars, settings>>

\* the Course the generator is constructed for: a new one, or one on which
\* earlier stages have run (as the course of a session, or one read back
\* from its JSON file); its output directory may be "raw" (not resolved)
Outlined(c) ==
    store_outline(c, [usage |-> 1, title |-> CallerTitle,
                      topics |-> TopicsOf([i \in 1..MaxTopics |-> i])])

RECURSIVE LectureUsageCounted(_, _)
LectureUsageCounted(c, n) ==
    IF n = 0 THEN c
    ELSE LectureUsageCounted(count_lecture_usage(c, [usage |-> 1, text |-> <<1>>]), n - 1)

Lectured(c) ==
    [LectureUsageCounted(c, MaxTopics) EXCEPT
        !.lectures = [present |-> TRUE,
                      list |-> [i \in 1..MaxTopics |-> Lecture(c.outline.topics[i], <<1>>)]]]

\* titles of a Course that has none: None, the empty string, white space
MissingTitles == {"None", "", " "}

GivenCourses ==
    LET new(d) == NewCourse(CallerTitle, d, MaxTopics)
    IN  {new(d) : d \in {"raw", "resolved"}}
        \cup {Outlined(new("resolved")), Lectured(Outlined(new("resolved")))}
        \cup {NewCourse(t, "raw", MaxTopics) : t \in MissingTitles}
        \cup {NewCourse(CallerTitle, "raw", n) : n \in {MAX_LECTURES, MAX_LECTURES + 1}}

Init ==
    /\ \E c \in GivenCourses : GenInit(c)
    /\ \E m \in ConfiguredLimits : settings = GeneratorSettings(m)
    /\ CombineIdle
    /\ ChunkIdle
    /\ StringIdle

Next ==
    \/ CallGenerateCourse
    \/ OutlineCall
    \/ OutlineResponse
    \/ OutlineFails
    \/ LecturesCall
    \/ \E i \in 1..Len(tasks) : LectureDone(i)
    \/ \E i \in 1..Len(tasks) : LectureFails(i)
    \/ AbortGroup
    \/ LecturesJoin
    \/ ImageCall
    \/ ImageResponse
    \/ ImageFails
    \/ AudioCall
    \/ \E i \in 1..Len(tasks) : SpeechDone(i)
    \/ \E i \in 1..Len(tasks) : SpeechFails(i)
    \/ AudioJoin

Spec == Init /\ [][Next]_vars

(***************************************************************************)
(* Properties of the audio assembler (SpecCombine).                        *)
(***************************************************************************)

\* the chunk a buffer was made for
chunk_of(b) == b.data[1][2]

IsFrame(t) == t[1] = "frame"

\* the chunk numbers of the audio frames of a byte sequence, in order
FrameOrder(audio) ==
    LET frames == SelectSeq(audio, IsFrame)
    IN  [j \in 1..Len(frames) |-> frames[j][2]]

\* the chunk numbers of the buffers in the order of the list supplied
SubmissionOrder == [i \in 1..Len(mp3_buffers) |-> chunk_of(mp3_buffers[i])]

AscendingOrder == [i \in 1..Len(mp3_buffers) |-> i]

Combined == combine_result # NotCombined /\ ~combine_result.raised

\* C1 as stated: whatever the order in which the buffers are supplied, the
\* audio assembled by combine_mp3_buffers is the buffers' audio in ascending
\* chunk-index order.
C1_AudioInIndexOrder ==
    Combined => FrameOrder(combine_result.audio) = AscendingOrder

\* C1 as amended: the audio assembled by combine_mp3_buffers is the buffers'
\* audio in the order of the list supplied, each buffer once; it is in
\* ascending chunk-index order exactly when the list is.
C1_AudioInSubmissionOrder ==
    Combined =>
        /\ FrameOrder(combine_result.audio) = SubmissionOrder
        /\ (FrameOrder(combine_result.audio) = AscendingOrder
               <=> SubmissionOrder = AscendingOrder)

\* three buffers supplied out of chunk order have been combined
C1_Witness ==
    /\ Combined
    /\ Len(mp3_buffers) = 3
    /\ SubmissionOrder # AscendingOrder
    /\ Len(combine_result.audio) >= 3

(***************************************************************************)
(* Properties of the text chunker (SpecChunk).                             *)
(***************************************************************************)

\* the sentences of the text, as the tokenizer returns them
Sentences == sent_tokenize(text)

AllSentencesFit == \A i \in 1..Len(text) : text[i] <= max_chunk_size

SomeSentenceTooLong == \E i \in 1..Len(text) : text[i] > max_chunk_size

RECURSIVE Spaced(_)
\* the strings of a sequence written one after the other, a single space
\* between two neighbours
Spaced(strs) ==
    IF strs = <<>> THEN <<>>
    ELSE IF Len(strs) = 1 THEN strs[1]
    ELSE strs[1] \o <<Space>> \o Spaced(Tail(strs))

ChunksWithinMax(r) ==
    (r.called /\ ~r.raised) =>
        \A c \in 1..Len(r.chunks) : Len(r.chunks[c]) <= max_chunk_size

\* C8: when max_chunk_size >= 1 and every sentence has at most
\* max_chunk_size characters, every chunk returned by either
\* split_text_into_chunks has at most max_chunk_size characters, the spaces
\* that join its sentences included.
C8_ChunksWithinMax ==
    (max_chunk_size >= 1 /\ AllSentencesFit) =>
        ChunksWithinMax(split_result) /\ ChunksWithinMax(utils_split_result)

\* both functions have returned at least two chunks, one of them made of
\* several sentences and exactly max_chunk_size long
C8_Witness ==
    /\ max_chunk_size >= 1 /\ AllSentencesFit
    /\ split_result.called /\ ~split_result.raised
    /\ utils_split_result.called /\ ~utils_split_result.raised
    /\ Len(split_result.chunks) >= 2
    /\ \E c \in 1..Len(split_result.chunks) :
          /\ Len(split_result.chunks[c]) = max_chunk_size
          /\ \E j \in 1..max_chunk_size : split_result.chunks[c][j] = Space

\* chunk c is a run of one or more whole consecutive sentences joined by
\* single spaces
IsSentenceRun(chunk) ==
    \E a \in 1..Len(text) : \E b \in a..Len(text) :
        chunk = Spaced(SubSeq(Sentences, a, b))

\* C9: when every sentence fits in max_chunk_size, each chunk returned by
\* string_utils.split_text_into_chunks is a run of whole consecutive
\* sentences joined by single spaces, and the chunks joined in order by
\* single spaces are the sentences joined in order by single spaces.
C9_ChunksRoundTrip ==
    (max_chunk_size >= 1 /\ AllSentencesFit /\ split_result.called) =>
        /\ ~split_result.raised
        /\ \A c \in 1..Len(split_result.chunks) : IsSentenceRun(split_result.chunks[c])
        /\ Spaced(split_result.chunks) = Spaced(Sentences)

\* three sentences have been split into two chunks, the first sentence
\* filling max_chunk_size alone
C9_Witness ==
    /\ AllSentencesFit /\ split_result.called
    /\ Len(text) = 3 /\ text[1] = max_chunk_size
    /\ Len(split_result.chunks) = 2

\* C10: when some sentence is longer than max_chunk_size, either
\* split_text_into_chunks raises and returns no chunk list.
C10_TooLongSentenceRaises ==
    SomeSentenceTooLong =>
        /\ split_result.called => split_result.raised /\ split_result.chunks = <<>>
        /\ utils_split_result.called =>
              utils_split_result.raised /\ utils_split_result.chunks = <<>>

(***************************************************************************)
(* Properties of OpenAIAsyncGenerator (Spec).                              *)
(***************************************************************************)

Stages == <<"generate_outline", "generate_lectures", "generate_image", "generate_audio">>

\* the last stage called was fn and it ended in the way given
StageEnded(fn, result) ==
    call = Idle /\ outcome.fn = fn /\ outcome.result = result

\* a remote call of stage fn failed and the stage has raised
StageFailedRemotely(fn) ==
    call = Idle /\ outcome = [fn |-> fn, result |-> "raised", error |-> "remote"]

SomeTaskFailed == \E i \in 1..Len(tasks) : tasks[i].state = "failed"

SomeTaskDone == \E i \in 1..Len(tasks) : tasks[i].state = "done"

RECURSIVE TotalLength(_)
\* the characters of a list of chunks
TotalLength(chunks) ==
    IF chunks = <<>> THEN 0 ELSE Len(chunks[1]) + TotalLength(Tail(chunks))

\* the chunks whose speech task has completed
ChunksDone ==
    SelectSeq([i \in 1..Len(tasks) |->
                  IF tasks[i].state = "done" THEN course_chunks[tasks[i].arg] ELSE <<>>],
              LAMBDA chunk : chunk # <<>>)

tts_character_count(c) == c.generation_info.tts_character_count

\* C2: when generate_audio has returned, tts_character_count has grown by
\* exactly the sum of the lengths of the text chunks, in whatever order
\* the speech tasks completed; while the tasks run it has grown by the
\* lengths of the chunks whose task has completed.
C2_TtsCountIsSumOfChunks ==
    /\ StageEnded("generate_audio", "returned") =>
          tts_character_count(course)
              = tts_character_count(course_before) + TotalLength(course_chunks)
    /\ InGroup("generate_audio") =>
          tts_character_count(course)
              = tts_character_count(course_before) + TotalLength(ChunksDone)

\* generate_audio has returned after speech tasks for two or more chunks
C2_Witness ==
    /\ StageEnded("generate_audio", "returned")
    /\ Len(course_chunks) >= 2
    /\ tts_character_count(course) > tts_character_count(course_before)
    /\ files.audio.written

\* C3: once a speech task has failed, generate_audio writes no audio
\* file and combines no buffers, and when it ends it has raised.
C3_FailedSpeechTaskFailsAudio ==
    [][(InGroup("generate_audio") /\ SomeTaskFailed) =>
          /\ files'.audio = files_before.audio
          /\ combine_result' = NotCombined
          /\ mp3_buffers' = <<>>
          /\ (call' = Idle => outcome'.fn = "generate_audio" /\ outcome'.result = "raised")]_vars

\* generate_audio has raised after one speech task failed and another
\* had received its audio
C3_Witness ==
    /\ StageFailedRemotely("generate_audio")
    /\ tts_character_count(course) > tts_character_count(course_before)
    /\ ~files.audio.written
    /\ combine_result = NotCombined

\* C4: once a lecture task has failed, course.lectures keeps the value it
\* had when generate_lectures was called, and when generate_lectures ends
\* it has raised.
C4_FailedLectureTaskKeepsLectures ==
    [][(InGroup("generate_lectures") /\ SomeTaskFailed) =>
          /\ course.lectures = course_before.lectures
          /\ course'.lectures = course_before.lectures
          /\ (call' = Idle => outcome'.fn = "generate_lectures" /\ outcome'.result = "raised")]_vars

\* generate_lectures, called on a course that had lectures, has raised
\* after one lecture task failed and another had received its lecture
C4_Witness ==
    /\ StageFailedRemotely("generate_lectures")
    /\ course_before.lectures.present
    /\ course.lectures = course_before.lectures
    /\ course.generation_info.input_token_count
           > course_before.generation_info.input_token_count

\* the events generate_course has logged are the calls and the ends of the
\* stages in their order: stage k is called right after stage k-1 has
\* ended, and only when stage k-1 has not raised
LogInStageOrder ==
    /\ Len(gc_log) <= 2 * Len(Stages)
    /\ \A n \in 1..Len(gc_log) :
          LET k == (n + 1) \div 2
          IN  /\ gc_log[n].fn = Stages[k]
              /\ IF n % 2 = 1 THEN gc_log[n].ev = "call"
                 ELSE gc_log[n].ev \in {"returned", "returned None", "raised"}
              /\ gc_log[n].ev = "raised" => n = Len(gc_log)

Raised(fn) == \E n \in 1..Len(gc_log) : gc_log[n] = Ended(fn, "raised")

Started(fn) == \E n \in 1..Len(gc_log) : gc_log[n] = Called(fn)

\* C5: generate_course calls the stages in the order outline, lectures,
\* image, audio, each after the one before it has ended; when a stage
\* raises no later stage is called and generate_course raises; it returns
\* only when all four stages have ended without raising, and no audio file
\* is written in a run whose image stage raised.
C5_StagesInOrder ==
    /\ LogInStageOrder
    /\ (\E k \in 1..Len(Stages) : Raised(Stages[k])) <=> gc_result = "raised"
    /\ gc_result = "raised" => gc.pc = "off" /\ call = Idle
    /\ gc_result = "returned" =>
          /\ Len(gc_log) = 2 * Len(Stages)
          /\ gc_log[Len(gc_log)] = Ended("generate_audio", "returned")
    /\ Raised("generate_image") =>
          ~Started("generate_audio") /\ files.audio = files_before.audio

\* generate_course has raised because its image stage raised, after the
\* outline and the lectures were generated
C5_Witness ==
    /\ gc_result = "raised"
    /\ Raised("generate_image")
    /\ course.lectures.present
    /\ Len(gc_log) = 6

json_snapshot(c) == [written |-> TRUE, course |-> c]

\* C6 as stated: when generate_lectures, generate_image or generate_audio
\* has returned the Course, the JSON file of the course holds the Course as
\* that stage left it; so when generate_course has raised in a later stage
\* the file holds the result of the last stage that returned.
C6_SnapshotAfterEachStage ==
    \A k \in 2..Len(Stages) :
        StageEnded(Stages[k], "returned") => files.json = json_snapshot(course)

\* C7 as stated: when generate_lectures, generate_image or generate_audio
\* has raised because a remote call failed, the Course is as it was when
\* the stage was called.
C7_FailedStageLeavesCourse ==
    \A k \in 2..Len(Stages) :
        StageFailedRemotely(Stages[k]) => course = course_before

\* the token and character counters of c
usage_counters(c) ==
    <<c.generation_info.input_token_count, c.generation_info.output_token_count,
      c.generation_info.tts_character_count>>

\* Course c with the counters of Course d
WithCountersOf(c, d) ==
    [c EXCEPT !.generation_info.input_token_count = d.generation_info.input_token_count,
              !.generation_info.output_token_count = d.generation_info.output_token_count,
              !.generation_info.tts_character_count = d.generation_info.tts_character_count]

\* C7 as amended: when generate_lectures, generate_image or generate_audio
\* has raised because a remote call failed, the title, the outline, the
\* lectures, the output paths and the image count of the Course are as
\* they were when the stage was called and the files are untouched; the
\* output directory is the resolved one, and no counter is lower than it
\* was: the usage of the requests answered before the failure stays
\* counted (a failed generate_image leaves all three counters as they were).
C7_FailedStageKeepsResults ==
    \A k \in 2..Len(Stages) :
        StageFailedRemotely(Stages[k]) =>
            /\ WithCountersOf(course, course_before)
                  = [course_before EXCEPT !.settings.output_directory = "resolved"]
            /\ files = files_before
            /\ \A n \in 1..3 : usage_counters(course)[n] >= usage_counters(course_before)[n]
            /\ Stages[k] = "generate_image" =>
                  usage_counters(course) = usage_counters(course_before)
            /\ Stages[k] = "generate_lectures" =>
                  tts_character_count(course) = tts_character_count(course_before)
            /\ Stages[k] = "generate_audio" =>
                  usage_counters(course)[1] = usage_counters(course_before)[1]
                  /\ usage_counters(course)[2] = usage_counters(course_before)[2]

\* generate_audio has raised after a speech task failed and another had
\* its characters counted, on a course that has lectures
C7_Witness ==
    /\ StageFailedRemotely("generate_audio")
    /\ course.lectures.present
    /\ course.generation_info.audio_file_path = NoPath
    /\ tts_character_count(course) > tts_character_count(course_before)

\* C11: when generate_lectures has returned, course.lectures has one
\* lecture per topic of the outline, and the i-th lecture has the number
\* and the title of the i-th topic, whatever outline was stored.
C11_OneLecturePerTopic ==
    StageEnded("generate_lectures", "returned") =>
        /\ Len(course.lectures.list) = Len(course.outline.topics)
        /\ \A i \in 1..Len(course.outline.topics) :
              /\ course.lectures.list[i].number = course.outline.topics[i].number
              /\ course.lectures.list[i].title = course.outline.topics[i].title

\* the numbers of the topics of an outline
TopicNumbers(outline) == {outline.topics[i].number : i \in 1..Len(outline.topics)}

\* C12: when generate_outline has returned, the outline has exactly
\* settings.num_lectures topics, whose numbers are distinct and are
\* 1..num_lectures, whatever the text model answered.
C12_TopicsNumberedOneToN ==
    StageEnded("generate_outline", "returned") =>
        /\ Len(course.outline.topics) = course.settings.num_lectures
        /\ TopicNumbers(course.outline) = 1..course.settings.num_lectures

\* C13 as stated: when generate_outline has returned, the title of the
\* outline is the title the caller gave the course, character for
\* character, and course.title is still that title.
C13_OutlineTitleIsCallerTitle ==
    StageEnded("generate_outline", "returned") =>
        /\ course.outline.title = course_before.title
        /\ course.title = course_before.title

\* C13 as amended: when generate_outline has returned, course.title is
\* still the title the caller gave, and the title of the outline is that
\* title or a title the text model returned that differs from it in the
\* case of its letters only.
C13_OutlineTitleIsCallerTitleUpToCase ==
    StageEnded("generate_outline", "returned") =>
        /\ course.title = course_before.title
        /\ lower(course.outline.title) = lower(course_before.title)
        /\ course.outline.title \in
              {course_before.title} \cup
              {t \in RemoteTitles : lower(t) = lower(course_before.title)}

\* generate_outline has returned and has kept a title of the text model
\* that differs from the caller's by case
C13_Witness ==
    /\ StageEnded("generate_outline", "returned")
    /\ course.outline.title # course.title
    /\ course.title = CallerTitle

\* generate_outline has raised its ValueError
OutlineRefused ==
    call = Idle
    /\ outcome = [fn |-> "generate_outline", result |-> "raised", error |-> "ValueError"]

\* C14: generate_outline called on a course whose title is None, empty or
\* white space raises its ValueError in the step of the call, without a
\* request to the text model, and leaves the course as it was.
C14_MissingTitleRefused ==
    [][(OutlineCall /\ course.title \in MissingTitles) =>
          /\ OutlineRefused'
          /\ course' = course]_vars

\* generate_outline has refused a course whose title is white space
C14_Witness ==
    /\ OutlineRefused
    /\ course.title = " "
    /\ course = course_before
    /\ course.settings.output_directory = "raw"

\* C15: generate_outline called on a titled course raises its ValueError
\* in the step of the call, without a request to the text model and
\* leaving the course as it was, when settings.num_lectures is greater
\* than MAX_LECTURES; with num_lectures up to MAX_LECTURES it goes on to
\* its request to the text model.
C15_LectureCountRefused ==
    [][(OutlineCall /\ course.title \notin MissingTitles) =>
          IF course.settings.num_lectures > MAX_LECTURES
          THEN OutlineRefused' /\ course' = course
          ELSE call' = [fn |-> "generate_outline", pc |-> "await"]]_vars

\* generate_outline has refused a course of MAX_LECTURES + 1 lectures
C15_Witness ==
    /\ OutlineRefused
    /\ course.title = CallerTitle
    /\ course.settings.num_lectures = MAX_LECTURES + 1
    /\ course = course_before

\* the stage called in this step has raised in the step of its call
RaisedAtCall(fn) == call' = Idle /\ outcome'.fn = fn /\ outcome'.result = "raised"

\* C16: generate_lectures called on a course without outline, and
\* generate_audio called on a course without lectures (None, or an empty
\* list), raise in the step of the call, without a request to a remote
\* service, and leave the course as it was.
C16_EmptyInputRefused ==
    [][/\ (LecturesCall /\ ~course.outline.present) =>
              RaisedAtCall("generate_lectures") /\ course' = course
       /\ (AudioCall /\ gc.arg = "course"
             /\ (~course.lectures.present \/ course.lectures.list = <<>>)) =>
              RaisedAtCall("generate_audio") /\ course' = course]_vars

\* the attempts the retry policy of the specification allows (its default)
DefaultMaxAttempts == 6

\* C17: a failure with the rate-limit signal comes out of a remote call
\* only when the request has been sent DefaultMaxAttempts times, and no
\* request is sent more often than that.
C17_RateLimitRetriedToMaxAttempts ==
    /\ requests.failure.kind = "rate_limit" =>
          requests.failure.attempts = DefaultMaxAttempts
    /\ \A i \in 1..Len(requests.sent) : requests.sent[i] <= DefaultMaxAttempts

\* C18: a failure of a remote call that is no rate-limit signal comes out
\* of the call when the request has been sent once: the request is not
\* sent again, and the step in which it fails is the step in which its
\* task fails or its stage raises.
C18_OtherFailureNotRetried ==
    /\ requests.failure.kind = "other" => requests.failure.attempts = 1
    /\ \A i \in 1..Len(requests.sent) : requests.sent[i] = 1

\* generate_image has raised the failure, not a rate-limit signal, of its
\* request to the image model
C18_Witness ==
    /\ StageFailedRemotely("generate_image")
    /\ requests.failure = [kind |-> "other", attempts |-> 1]
    /\ course.generation_info.num_images_generated = 0

\* combine_mp3_buffers has been called
CombineCalled == combine_result # NotCombined

\* buffer i starts like MP3 data and holds an MPEG frame
WellFormed(i) == is_valid_mp3(mp3_buffers[i].data) /\ mp3_parses(mp3_buffers[i].data)

AllWellFormed == \A i \in 1..Len(mp3_buffers) : WellFormed(i)

\* two buffers that can be parsed differ in bitrate or in sample rate
InfosDisagree ==
    \E i, j \in 1..Len(mp3_buffers) :
        WellFormed(i) /\ WellFormed(j) /\ mp3_buffers[i].info # mp3_buffers[j].info

\* the list index of the first buffer for which P holds
FirstIndex(P(_)) ==
    (CHOOSE i \in 1..Len(mp3_buffers) : P(i) /\ \A j \in 1..(i - 1) : ~P(j)) - 1

\* C19: when buffers given to combine_mp3_buffers differ in bitrate or in
\* sample rate, it raises and no combined audio comes out; when every
\* buffer is well-formed MP3 the error is the one about inconsistent
\* parameters, naming the index of the first buffer that differs from the
\* first one.
C19_InconsistentParametersRefused ==
    (CombineCalled /\ InfosDisagree) =>
        /\ combine_result.raised
        /\ combine_result.audio = <<>>
        /\ AllWellFormed =>
              /\ combine_result.error = "Inconsistent MP3 parameters"
              /\ combine_result.index =
                    FirstIndex(LAMBDA i : mp3_buffers[i].info # mp3_buffers[1].info)

\* three well-formed buffers, the last one of another bitrate, have been
\* refused
C19_Witness ==
    /\ CombineCalled
    /\ Len(mp3_buffers) = 3
    /\ AllWellFormed
    /\ mp3_buffers[1].info = mp3_buffers[2].info
    /\ mp3_buffers[3].info[1] # mp3_buffers[1].info[1]
    /\ combine_result.raised
    /\ combine_result.index = 2

\* C20: when a buffer given to combine_mp3_buffers does not start like MP3
\* data or cannot be parsed (the buffers that can be parsed agreeing in
\* bitrate and sample rate), it raises an error that names the list index
\* of the first such buffer.
C20_MalformedBufferNamedByIndex ==
    (CombineCalled /\ ~AllWellFormed /\ ~InfosDisagree) =>
        /\ combine_result.raised
        /\ combine_result.index = FirstIndex(LAMBDA i : ~WellFormed(i))

\* C21: when combine_mp3_buffers is given well-formed buffers of one
\* bitrate and sample rate, one or many, it returns audio whose tags are
\* the caller's tags (none when the caller gave none) and which holds the
\* cover exactly when a cover was given, whatever the buffers hold.
C21_CallerTagsApplied ==
    (CombineCalled /\ Len(mp3_buffers) >= 1 /\ AllWellFormed /\ ~InfosDisagree) =>
        /\ ~combine_result.raised
        /\ combine_result.tags = (IF tags.truthy THEN "caller" ELSE "")
        /\ combine_result.cover = album_art

\* the bytes of the buffer at position i that follow its ID3 header, all of
\* them when it has none
AfterHeader(i) ==
    LET data == mp3_buffers[i].data
    IN  IF has_id3_header(data) THEN SubSeq(data, ID3Size + 1, Len(data)) ELSE data

RECURSIVE FirstWholeRestAfterHeader(_)
\* the first buffer whole, then the part after its header of each of the
\* buffers 2..n, in order
FirstWholeRestAfterHeader(n) ==
    IF n = 0 THEN <<>>
    ELSE IF n = 1 THEN mp3_buffers[1].data
    ELSE FirstWholeRestAfterHeader(n - 1) \o AfterHeader(n)

\* C22: the audio that combine_mp3_buffers returns is the first buffer whole
\* followed, in order, by the bytes of every later buffer that come after
\* its own ID3 header (all its bytes when it has none).
C22_OnlyFirstHeaderKept ==
    Combined => combine_result.audio = FirstWholeRestAfterHeader(Len(mp3_buffers))

\* the requests sent to the remote service and not yet answered: one for
\* each task of the group that is still awaiting its response
InFlight == Cardinality({i \in 1..Len(tasks) : tasks[i].state = "awaiting"})

\* C23: while the lectures or the audio are generated, the number of
\* requests in flight never exceeds the configured max_concurrent_requests.
C23_InFlightWithinConfiguredMaximum ==
    (InGroup("generate_lectures") \/ InGroup("generate_audio")) =>
        InFlight <= settings.max_concurrent_requests

Sanitized == sanitize_result.called

Count(s, c) == Cardinality({i \in 1..Len(s) : s[i] = c})

IsUnderscore(c) == c = "_"
NotUnderscore(c) == c # "_"
LetterDigitOrHyphen(c) == c \in (WordChars \ {"_"}) \cup {"-"}

LowerCaseWordChars == Range(LowerCaseLetters) \cup Digits \cup {"_"}

\* C24 as stated: the name sanitize_filename returns is made only of
\* lowercase word characters and underscores, holds one underscore for each
\* space inside the title, and is "ai_you_2025" for "AI & You: 2025!".
C24_OnlyLowercaseWordChars ==
    Sanitized =>
        /\ \A i \in 1..Len(sanitize_result.name) : sanitize_result.name[i] \in LowerCaseWordChars
        /\ Count(sanitize_result.name, "_") = Count(strip(name), " ") + Count(name, "_")
        /\ name = ExampleTitle =>
              sanitize_result.name = <<"a", "i", "_", "y", "o", "u", "_", "2", "0", "2", "5">>

\* C24, amended: the name sanitize_filename returns is made only of
\* lowercase word characters, underscores and hyphens; it holds one
\* underscore for each space inside the stripped title and for each
\* underscore of the title; without its underscores it is the lowercased
\* letters, digits and hyphens of the title, in order; and it is
\* "ai__you_2025" for "AI & You: 2025!".
C24_LowercaseWordCharsAndHyphens ==
    Sanitized =>
        /\ \A i \in 1..Len(sanitize_result.name) :
              sanitize_result.name[i] \in LowerCaseWordChars \cup {"-"}
        /\ Count(sanitize_result.name, "_") = Count(strip(name), " ") + Count(name, "_")
        /\ SelectSeq(sanitize_result.name, NotUnderscore)
              = str_lower(SelectSeq(name, LetterDigitOrHyphen))
        /\ name = ExampleTitle =>
              sanitize_result.name = <<"a", "i", "_", "_", "y", "o", "u", "_", "2", "0", "2", "5">>

\* "AI & You: 2025!" has been sanitized: its three inner spaces are underscores
C24_ExampleTitleSanitized ==
    /\ Sanitized
    /\ name = ExampleTitle
    /\ Count(sanitize_result.name, "_") = 3

Swapped == swap_result.called

\* the last position of the run of word characters that starts at text[p]
RunEnd(txt, p) ==
    CHOOSE q \in p..Len(txt) :
        /\ \A j \in p..q : txt[j] \in WordChars
        /\ q = Len(txt) \/ txt[q + 1] \notin WordChars

IsKey(word) == \E k \in 1..Len(LLM_SMELLS) : LLM_SMELLS[k].key = str_lower(word)

\* the substitute of a key in the case pattern of the word: all upper,
\* title case, otherwise lower
SubstituteLike(word) ==
    LET k == CHOOSE k \in 1..Len(LLM_SMELLS) : LLM_SMELLS[k].key = str_lower(word)
        substitute == LLM_SMELLS[k].value
    IN  IF word = str_upper(word) THEN str_upper(substitute)
        ELSE IF word = <<char_upper(word[1])>> \o str_lower(Tail(word))
        THEN <<char_upper(substitute[1])>> \o str_lower(Tail(substitute))
        ELSE str_lower(substitute)

RECURSIVE WordByWord(_, _)
\* the text from position p on, read as words (runs of word characters) and
\* the characters between them: a word that is a key, in any case, gives its
\* substitute, every other word and character stays
WordByWord(txt, p) ==
    IF p > Len(txt) THEN <<>>
    ELSE IF txt[p] \notin WordChars THEN <<txt[p]>> \o WordByWord(txt, p + 1)
    ELSE LET q == RunEnd(txt, p)
             word == SubSeq(txt, p, q)
         IN  (IF IsKey(word) THEN SubstituteLike(word) ELSE word) \o WordByWord(txt, q + 1)

\* C25: swap_words(text, LLM_SMELLS) returns the text in which every whole
\* word that is a key of the table, in any letter case, is replaced by its
\* substitute in the case pattern of the word (all upper, title case,
\* otherwise lower) and every other character is unchanged, words that only
\* contain a key included.
C25_WholeWordsSwappedRestUnchanged ==
    Swapped => swap_result.text = WordByWord(lecture_text, 1)

\* "Delve delver" has been swapped to "Dig delver"
C25_TitleCaseKeySwapped ==
    /\ Swapped
    /\ lecture_text = <<"D", "e", "l", "v", "e", " ", "d", "e", "l", "v", "e", "r">>
    /\ swap_result.text = <<"D", "i", "g", " ", "d", "e", "l", "v", "e", "r">>

\* C26: generate_audio runs one speech task for each text chunk, task i for
\* chunk i, and the buffers it gives combine_mp3_buffers are those of the
\* chunks 1..k in this order, in whatever order the tasks completed.
C26_OneTaskPerChunkBuffersInChunkOrder ==
    /\ InGroup("generate_audio") =>
          /\ Len(tasks) = Len(course_chunks)
          /\ \A i \in 1..Len(tasks) : tasks[i].arg = i
    /\ CombineCalled => SubmissionOrder = [i \in 1..Len(course_chunks) |-> i]

\* the buffers of several chunks have been handed to combine_mp3_buffers
C26_SeveralBuffersHandedOver ==
    /\ CombineCalled
    /\ Len(course_chunks) >= 2
    /\ Len(mp3_buffers) = Len(course_chunks)

\* C27: whenever course.lectures is set, the course has an outline and the
\* lectures are, in order, one for each of its topics, with the number and
\* the title of the topic.
C27_LecturesMatchCurrentOutline ==
    course.lectures.present =>
        /\ course.outline.present
        /\ Len(course.lectures.list) = Len(course.outline.topics)
        /\ \A i \in 1..Len(course.lectures.list) :
              /\ course.lectures.list[i].number = course.outline.topics[i].number
              /\ course.lectures.list[i].title = course.outline.topics[i].title

\* C28: whenever generation_info.audio_file_path is set, the audio file is
\* written and holds the whole audio combined from the buffers; a
\* generate_audio call that raises leaves the path as it was.
C28_AudioPathPointsToWrittenAudio ==
    /\ course.generation_info.audio_file_path # NoPath =>
          /\ files.audio.written
          /\ Combined
          /\ files.audio.content = combine_result.audio
    /\ StageEnded("generate_audio", "raised") =>
          course.generation_info.audio_file_path = course_before.generation_info.audio_file_path

\* C29: a stage that ends without raising has returned the Course it was
\* given, never None.
C29_StageReturnsCourse ==
    \A n \in 1..Len(Stages) :
        (call = Idle /\ outcome.fn = Stages[n] /\ outcome.result # "raised") =>
            outcome.result = "returned"

NoEmptyChunk(r) ==
    (r.called /\ ~r.raised) =>
        /\ \A i \in 1..Len(r.chunks) : r.chunks[i] # <<>>
        /\ text = <<>> => r.chunks = <<>>

\* C30: neither split_text_into_chunks (utils/string_utils.py and utils.py)
\* returns an empty chunk, and both return the empty list for a text that
\* has no sentence.
C30_NoEmptyChunk == NoEmptyChunk(split_result) /\ NoEmptyChunk(utils_split_result)

====
